---- MODULE Spec2Model ----
(***************************************************************************)
(* Beam-search simulation server (BeamSimMcp): the scoring, transition and *)
(* beam-search engine of simulation.py, the JSON store of storage.py and   *)
(* the request handlers of server.py.                                      *)
(*                                                                         *)
(* Python values are modelled as follows.                                  *)
(*   - a scalar is a record [t, n, s]: t is the Python type ("int",        *)
(*     "float", "bool", "str"), n its numeric value (int(True) = 1), s its *)
(*     text.  Numbers live on the integer grid.                            *)
(*   - a dict is the sequence of its [k, v] items in insertion order.      *)
(*   - a constraint key is the pair of its slices [head |-> key[:4],       *)
(*     tail |-> key[4:]].                                                  *)
(*   - an object that the code may alias (a state's values dict) lives in  *)
(*     a heap, a sequence of dicts; a reference is an index into it.       *)
(***************************************************************************)
EXTENDS Integers, Sequences, FiniteSets, TLC

(* ------------------------------ bounds -------------------------------- *)
MaxBeamWidth == 2
MaxSteps == 2
MaxActions == 2

(* --------------------------- Python values ---------------------------- *)
IntV(n) == [t |-> "int", n |-> n, s |-> ""]
FloatV(n) == [t |-> "float", n |-> n, s |-> ""]
BoolV(b) == [t |-> "bool", n |-> IF b THEN 1 ELSE 0, s |-> ""]
StrV(s) == [t |-> "str", n |-> 0, s |-> s]

\* isinstance(v, (int, float)): bool is a subclass of int
IsNumber(v) == v.t \in {"int", "float", "bool"}

\* a + b on numbers: a float operand makes the result a float
NumAdd(a, b) ==
    [t |-> IF a.t = "float" \/ b.t = "float" THEN "float" ELSE "int",
     n |-> a.n + b.n, s |-> ""]

NumSub(a, b) ==
    [t |-> IF a.t = "float" \/ b.t = "float" THEN "float" ELSE "int",
     n |-> a.n - b.n, s |-> ""]

Range(seq) == {seq[i] : i \in 1..Len(seq)}

\* dict operations on item sequences
DictKeys(d) == [i \in 1..Len(d) |-> d[i].k]
DictHas(d, key) == \E i \in 1..Len(d) : d[i].k = key
DictGet(d, key, default) ==
    IF DictHas(d, key)
    THEN d[CHOOSE i \in 1..Len(d) : d[i].k = key].v
    ELSE default
\* d = {key: val}: the other entries dropped
DictSetAlone(d, key, val) == << [k |-> key, v |-> val] >>
DictSet(d, key, val) ==
    IF DictHas(d, key)
    THEN [i \in 1..Len(d) |-> IF d[i].k = key THEN [k |-> key, v |-> val] ELSE d[i]]
    ELSE Append(d, [k |-> key, v |-> val])
UniqueKeys(d) == \A i, j \in 1..Len(d) : d[i].k = d[j].k => i = j

(* ------------------------------ scoring ------------------------------- *)
RECURSIVE SumNumbers(_, _)
\* sum(v for v in state.values() if isinstance(v, (int, float))), from int 0
SumNumbers(state, i) ==
    IF i = 0 THEN IntV(0)
    ELSE IF IsNumber(state[i].v)
         THEN NumAdd(SumNumbers(state, i - 1), state[i].v)
         ELSE SumNumbers(state, i - 1)

\* one pass of the constraint loop: the amount subtracted from penalty
PenaltyTerm(state, key, limit) ==
    IF key.head = "max_" /\ DictHas(state, key.tail)
    THEN LET actual == DictGet(state, key.tail, IntV(0))
         IN IF IsNumber(actual) /\ actual.n > limit.n
            THEN (actual.n - limit.n) * 10 ELSE 0
    ELSE IF key.head = "min_" /\ DictHas(state, key.tail)
    THEN LET actual == DictGet(state, key.tail, IntV(0))
         IN IF IsNumber(actual) /\ actual.n < limit.n
            THEN (limit.n - actual.n) * 10 ELSE 0
    ELSE 0

RECURSIVE Penalty(_, _, _)
\* penalty = 0.0; for key, limit in constraints.items(): penalty -= ...
Penalty(state, constraints, i) ==
    IF i = 0 THEN 0
    ELSE Penalty(state, constraints, i - 1)
         - PenaltyTerm(state, constraints[i].k, constraints[i].v)

\* _default_score_function: the breakdown dict, in insertion order
ScoreFunction(state, constraints) ==
    << [k |-> "value_sum", v |-> SumNumbers(state, Len(state))],
       [k |-> "constraint_penalty",
        v |-> FloatV(Penalty(state, constraints, Len(constraints)))] >>

RECURSIVE SumValues(_, _)
\* sum(breakdown.values())
SumValues(d, i) ==
    IF i = 0 THEN IntV(0) ELSE NumAdd(SumValues(d, i - 1), d[i].v)

TotalScore(breakdown) == SumValues(breakdown, Len(breakdown))
(* ------------------------- heap of state dicts ------------------------ *)
\* state.copy(): a new dict object holding the same items
DictCopy(heap, ref) == [heap |-> Append(heap, heap[ref]), ref |-> Len(heap) + 1]

\* a second name for the same object
DictAlias(heap, ref) == [heap |-> heap, ref |-> ref]

\* obj[key] = val on the object a reference names
HeapStore(heap, ref, key, val) == [heap EXCEPT ![ref] = DictSet(@, key, val)]

(* ----------------------------- transition ----------------------------- *)
\* new_state[field] = delta whatever the action: no combination is a no-op
ApplyToCreate(c, action) ==
    [heap |-> HeapStore(c.heap, c.ref, DictGet(action, "field", StrV("")).s,
                        DictGet(action, "delta", IntV(1))),
     ref |-> c.ref]

\* the body of _apply_action after "new_state = ...": c is the heap and the
\* reference new_state is bound to
ApplyTo(c, action) ==
    LET new_state == c.ref
        action_type == DictGet(action, "type", StrV(""))
        field == DictGet(action, "field", StrV(""))
        delta == DictGet(action, "delta", IntV(1))
        cur == DictGet(c.heap[new_state], field.s, IntV(0))
    IN IF action_type = StrV("increment") /\ DictHas(c.heap[new_state], field.s)
       THEN IF IsNumber(cur)
            THEN [heap |-> HeapStore(c.heap, new_state, field.s, NumAdd(cur, delta)),
                  ref |-> new_state]
            ELSE c
       ELSE IF action_type = StrV("decrement") /\ DictHas(c.heap[new_state], field.s)
       THEN IF IsNumber(cur)
            THEN [heap |-> HeapStore(c.heap, new_state, field.s, NumSub(cur, delta)),
                  ref |-> new_state]
            ELSE c
       ELSE IF action_type = StrV("set") /\ field.s # ""
       THEN [heap |-> HeapStore(c.heap, new_state, field.s,
                                DictGet(action, "value", IntV(0))),
             ref |-> new_state]
       ELSE c

\* new_state = state: the copy forgotten
ApplyActionInPlace(heap, state, action) == ApplyTo(DictAlias(heap, state), action)

\* _apply_action: the heap after the call and the reference returned
ApplyAction(heap, state, action) == ApplyTo(DictCopy(heap, state), action)

\* f"{action.get('type', 'unknown')}": the field left out
ActionDescBare(action) == << DictGet(action, "type", StrV("unknown")).s >>

\* f"{action.get('type', 'unknown')}({action.get('field', '')})"
ActionDesc(action) ==
    << DictGet(action, "type", StrV("unknown")).s, "(",
       DictGet(action, "field", StrV("")).s, ")" >>

(* -------------------------------- rng --------------------------------- *)
\* _compute_hash({"default": True}): one fixed number
ComputeHashDefault == 5

\* a seed argument: None, or an int
NoSeed == [given |-> FALSE, v |-> 0]
SeedOf(n) == [given |-> TRUE, v |-> n]

\* random.Random(seed if seed is not None else _compute_hash(...)): the
\* generator is a deterministic function of its seed (a full-period LCG here)
RngNew(seed) == IF seed.given THEN seed.v % 8 ELSE ComputeHashDefault % 8

RngNext(rng) == (5 * rng + 3) % 8

\* rng.uniform(0.5, 2.0): a grid point of [0.5, 2.0], and the advanced state
Uniform(rng) == [value |-> FloatV(1 + (RngNext(rng) \div 4)), rng |-> RngNext(rng)]

(* -------------------------- action generation ------------------------- *)
RECURSIVE DefaultActions(_, _, _)
\* the else branch of _generate_actions over state.items()[1..i]
DefaultActions(state, rng, i) ==
    IF i = 0 THEN [actions |-> <<>>, rng |-> rng]
    ELSE LET p == DefaultActions(state, rng, i - 1)
             u == Uniform(p.rng)
         IN IF IsNumber(state[i].v)
            THEN [actions |-> p.actions \o
                     << << [k |-> "type", v |-> StrV("increment")],
                           [k |-> "field", v |-> StrV(state[i].k)],
                           [k |-> "delta", v |-> u.value] >>,
                        << [k |-> "type", v |-> StrV("decrement")],
                           [k |-> "field", v |-> StrV(state[i].k)],
                           [k |-> "delta", v |-> u.value] >> >>,
                  rng |-> u.rng]
            ELSE p

\* the explicit actions offered to the initial state only
GenerateActionsFirst(state, scenario, rng) ==
    IF scenario.has_actions
    THEN [actions |-> IF state = scenario.initial_state THEN scenario.actions
                      ELSE <<>>,
          rng |-> rng]
    ELSE DefaultActions(state, rng, Len(state))

\* _generate_actions
GenerateActions(state, scenario, rng) ==
    IF scenario.has_actions
    THEN [actions |-> scenario.actions, rng |-> rng]
    ELSE DefaultActions(state, rng, Len(state))
(* ----------------------------- beam search ---------------------------- *)
RECURSIVE SnapshotBeam(_, _, _)
\* [{"values": s.values.copy(), "score": s.score, "history": s.history.copy()}
\*  for s in beam], over beam[1..i]
SnapshotBeam(heap, beam, i) ==
    IF i = 0 THEN [heap |-> heap, snap |-> <<>>]
    ELSE LET p == SnapshotBeam(heap, beam, i - 1)
             c == DictCopy(p.heap, beam[i].values)
         IN [heap |-> c.heap,
             snap |-> Append(p.snap, [values |-> c.ref, score |-> beam[i].score,
                                      history |-> beam[i].history])]

RECURSIVE ExpandActions(_, _, _, _, _)
\* the inner loop "for action in actions" over actions[1..j]
ExpandActions(heap, state, actions, constraints, j) ==
    IF j = 0 THEN [heap |-> heap, cands |-> <<>>]
    ELSE LET p == ExpandActions(heap, state, actions, constraints, j - 1)
             a == ApplyAction(p.heap, state.values, actions[j])
             breakdown == ScoreFunction(a.heap[a.ref], constraints)
         IN [heap |-> a.heap,
             cands |-> Append(p.cands,
                 [values |-> a.ref, score |-> TotalScore(breakdown),
                  history |-> Append(state.history, ActionDesc(actions[j]))])]

RECURSIVE ExpandBeam(_, _, _, _, _, _)
\* the outer loop "for state in beam" over beam[1..i]
ExpandBeam(heap, rng, beam, scenario, constraints, i) ==
    IF i = 0 THEN [heap |-> heap, rng |-> rng, cands |-> <<>>]
    ELSE LET p == ExpandBeam(heap, rng, beam, scenario, constraints, i - 1)
             g == GenerateActions(p.heap[beam[i].values], scenario, p.rng)
             e == ExpandActions(p.heap, beam[i], g.actions, constraints,
                                Len(g.actions))
         IN [heap |-> e.heap, rng |-> g.rng, cands |-> p.cands \o e.cands]

\* x placed before the elements of its own score: an unstable sort
InsertDescFront(sorted, x) ==
    LET ahead == {i \in 1..Len(sorted) : sorted[i].score.n > x.score.n}
        at == IF ahead = {} THEN 0
              ELSE CHOOSE i \in ahead : \A j \in ahead : j <= i
    IN SubSeq(sorted, 1, at) \o <<x>> \o SubSeq(sorted, at + 1, Len(sorted))

\* x placed behind every element whose score is not smaller (stable)
InsertDesc(sorted, x) ==
    LET ahead == {i \in 1..Len(sorted) : sorted[i].score.n >= x.score.n}
        at == IF ahead = {} THEN 0
              ELSE CHOOSE i \in ahead : \A j \in ahead : j <= i
    IN SubSeq(sorted, 1, at) \o <<x>> \o SubSeq(sorted, at + 1, Len(sorted))

\* x placed behind every element whose score is not greater
InsertAsc(sorted, x) ==
    LET ahead == {i \in 1..Len(sorted) : sorted[i].score.n <= x.score.n}
        at == IF ahead = {} THEN 0
              ELSE CHOOSE i \in ahead : \A j \in ahead : j <= i
    IN SubSeq(sorted, 1, at) \o <<x>> \o SubSeq(sorted, at + 1, Len(sorted))

RECURSIVE SortAsc(_, _)
\* candidates.sort(key=lambda s: s.score): reverse=True forgotten
SortAsc(cands, i) ==
    IF i = 0 THEN <<>> ELSE InsertAsc(SortAsc(cands, i - 1), cands[i])

RECURSIVE SortDesc(_, _)
\* candidates.sort(key=lambda s: s.score, reverse=True), over cands[1..i]
SortDesc(cands, i) ==
    IF i = 0 THEN <<>> ELSE InsertDesc(SortDesc(cands, i - 1), cands[i])

\* candidates[:] : the slice bound forgotten
TruncateNone(cands, beam_width) == cands

\* candidates[:beam_width]
Truncate(cands, beam_width) ==
    SubSeq(cands, 1, IF Len(cands) < beam_width THEN Len(cands) ELSE beam_width)

\* BeamSimulator(...) and run() up to the loop (simulation.py 118-159);
\* heap[1] is the caller's initial_state dict
SimStart(run_id, scenario, constraints, beam_width, max_steps, seed) ==
    LET initial_state == scenario.initial_state
        initial_breakdown == ScoreFunction(initial_state, constraints)
        c == DictCopy(<<initial_state>>, 1)
    IN IF Len(initial_state) = 0
       THEN [pc |-> "error", run_id |-> run_id, scenario |-> scenario,
             constraints |-> constraints, beam_width |-> beam_width,
             max_steps |-> max_steps, rng |-> RngNew(seed), step |-> 0,
             heap |-> <<initial_state>>, beam |-> <<>>, generated |-> <<>>,
             candidates |-> <<>>,
             intermediate_states |-> <<>>]
       ELSE [pc |-> IF max_steps > 0 THEN "loop" ELSE "final", run_id |-> run_id, scenario |-> scenario,
             constraints |-> constraints, beam_width |-> beam_width,
             max_steps |-> max_steps, rng |-> RngNew(seed), step |-> 0,
             heap |-> c.heap,
             beam |-> << [values |-> c.ref, score |-> TotalScore(initial_breakdown),
                          history |-> << <<"initial">> >>] >>,
             generated |-> <<>>, candidates |-> <<>>,
             intermediate_states |-> <<>>]

\* one iteration of "for step in range(self.max_steps)"; generated is the
\* candidates list as appended, before it is sorted in place
SimStep(sim) ==
    LET snap == SnapshotBeam(sim.heap, sim.beam, Len(sim.beam))
        e == ExpandBeam(snap.heap, sim.rng, sim.beam, sim.scenario,
                        sim.constraints, Len(sim.beam))
        candidates == SortDesc(e.cands, Len(e.cands))
        beam == Truncate(candidates, sim.beam_width)
    IN [sim EXCEPT !.heap = e.heap, !.rng = e.rng,
                   !.intermediate_states = Append(@, snap.snap),
                   !.generated = e.cands,
                   !.candidates = candidates, !.beam = beam,
                   !.step = @ + 1,
                   !.pc = IF Len(beam) = 0 \/ sim.step + 1 >= sim.max_steps
                          THEN "final" ELSE "loop"]

\* the code after the loop: the final snapshot and the best state
SimFinish(sim) ==
    LET snap == SnapshotBeam(sim.heap, sim.beam, Len(sim.beam))
    IN [sim EXCEPT !.heap = snap.heap,
                   !.intermediate_states = Append(@, snap.snap),
                   !.pc = "done"]

\* best = beam[0] if beam else SimulationState(values=initial_state, score=0.0)
Best(sim) ==
    IF Len(sim.beam) > 0 THEN sim.beam[1]
    ELSE [values |-> 1, score |-> FloatV(0), history |-> <<>>]

\* a list of {"values", "score", "history"/"path"} dicts by value
DerefStates(heap, states) ==
    [i \in 1..Len(states) |->
        [values |-> heap[states[i].values], score |-> states[i].score,
         path |-> states[i].history]]

\* one snapshot of intermediate_states by value
DerefSnapshot(heap, snap) ==
    [i \in 1..Len(snap) |->
        [values |-> heap[snap[i].values], score |-> snap[i].score,
         history |-> snap[i].history]]

\* the SimulationResult run() returns, its dicts by value
SimResult(sim) ==
    [run_id |-> sim.run_id,
     best_result |-> DerefStates(sim.heap, <<Best(sim)>>)[1],
     top_k |-> DerefStates(sim.heap, Truncate(sim.beam, sim.beam_width)),
     score_breakdown |-> ScoreFunction(sim.heap[Best(sim).values], sim.constraints),
     intermediate_states |->
        [k \in 1..Len(sim.intermediate_states) |->
            DerefSnapshot(sim.heap, sim.intermediate_states[k])],
     scenario |-> sim.scenario,
     constraints |-> sim.constraints]
(* ------------------------------ run ids ------------------------------- *)
\* str(uuid.UUID(int=bits, version=4)): the text of the uuid with these bits
UuidText(bits) == <<"uuid", bits>>

\* str(uuid.uuid4()) whatever the seed
GenerateRunIdRandom(seed, entropy) == UuidText(entropy)

\* generate_run_id: entropy is what uuid4() draws from the system
GenerateRunId(seed, entropy) ==
    IF seed.given THEN UuidText(RngNext(RngNew(seed))) ELSE UuidText(entropy)

(* ------------------------------- inputs ------------------------------- *)
Item(key, val) == [k |-> key, v |-> val]

InitialStates ==
    { <<>>,
      << Item("x", IntV(2)), Item("y", IntV(0)) >>,
      << Item("x", IntV(1)), Item("flag", BoolV(TRUE)) >>,
      << Item("x", StrV("a")), Item("y", IntV(1)) >> }

ActionPool ==
    { << Item("type", StrV("increment")), Item("field", StrV("x")) >>,
      << Item("type", StrV("decrement")), Item("field", StrV("y")),
         Item("delta", IntV(2)) >>,
      << Item("type", StrV("set")), Item("field", StrV("z")),
         Item("value", IntV(3)) >>,
      << Item("field", StrV("x")) >> }

ActionLists == UNION {[1..n -> ActionPool] : n \in 0..MaxActions}

Scenarios ==
    {[initial_state |-> st, has_actions |-> TRUE, actions |-> al] :
        st \in InitialStates, al \in ActionLists}
    \cup {[initial_state |-> st, has_actions |-> FALSE, actions |-> <<>>] :
        st \in InitialStates}

ConstraintSets ==
    { <<>>,
      << Item([head |-> "max_", tail |-> "x"], IntV(1)),
         Item([head |-> "min_", tail |-> "y"], IntV(1)) >> }

Seeds == {NoSeed, SeedOf(1)}

\* what uuid4() may return
Entropy == {8, 9}

Executions == {1, 2}

VARIABLES
    args,            \* the arguments both executions are given
    sim,             \* execution -> the BeamSimulator.run in progress
    score_state,     \* the state a scoring call is given
    score_limits,    \* the constraints a scoring call is given
    score_breakdown, \* what the scoring call returned (<<>> before the call)
    files,           \* path -> [exists, text]: the store's directory
    lock,            \* storage._lock: [locked, waiters]
    task,            \* request task -> its handler's position and locals
    requests,        \* the requests clients may send
    committed        \* history: every text the store file has held

simvars == <<args, sim>>
scorevars == <<score_state, score_limits, score_breakdown>>
srvvars == <<files, lock, task, requests, committed>>
vars == <<args, sim, score_state, score_limits, score_breakdown, files, lock, task,
          requests, committed>>

NotStarted == [pc |-> "new"]

\* the variables of the other specifications, at rest
SimUnused ==
    /\ args = [scenario |-> [initial_state |-> <<>>, has_actions |-> FALSE,
                             actions |-> <<>>],
               constraints |-> <<>>, beam_width |-> 1, max_steps |-> 1,
               seed |-> NoSeed]
    /\ sim = [r \in Executions |-> NotStarted]
ScoreUnused ==
    /\ score_state = <<>>
    /\ score_limits = <<>>
    /\ score_breakdown = <<>>
ServerUnused ==
    /\ files = <<>>
    /\ lock = [locked |-> FALSE, waiters |-> <<>>]
    /\ task = <<>>
    /\ requests = {}
    /\ committed = {}

InitSim ==
    /\ args \in [scenario : Scenarios, constraints : ConstraintSets,
                 beam_width : 1..MaxBeamWidth, max_steps : 1..MaxSteps,
                 seed : Seeds]
    /\ sim = [r \in Executions |-> NotStarted]
    /\ ScoreUnused
    /\ ServerUnused

\* run() has no suspension point: executions never interleave
Idle(r) == \A q \in Executions \ {r} : sim[q].pc \in {"new", "done", "error"}

\* generate_run_id(seed), BeamSimulator(...), and run() up to its loop
StartRun(r) ==
    /\ sim[r].pc = "new"
    /\ Idle(r)
    /\ \E entropy \in Entropy :
         sim' = [sim EXCEPT ![r] =
                    SimStart(GenerateRunId(args.seed, entropy), args.scenario,
                             args.constraints, args.beam_width, args.max_steps,
                             args.seed)]
    /\ UNCHANGED args

StepRun(r) ==
    /\ sim[r].pc = "loop"
    /\ sim' = [sim EXCEPT ![r] = SimStep(sim[r])]
    /\ UNCHANGED args

FinishRun(r) ==
    /\ sim[r].pc = "final"
    /\ sim' = [sim EXCEPT ![r] = SimFinish(sim[r])]
    /\ UNCHANGED args

NextSim ==
    /\ \E r \in Executions : StartRun(r) \/ StepRun(r) \/ FinishRun(r)
    /\ UNCHANGED <<scorevars, srvvars>>

SpecSim == InitSim /\ [][NextSim]_vars
(* ------------------------ claims on the engine ------------------------ *)
Ran(r) == sim[r].pc \in {"loop", "final", "done"}
Done(r) == sim[r].pc = "done"
MaxOf(a, b) == IF a >= b THEN a ELSE b

\* C1 (determinism): two executions given the same scenario, constraints,
\* beam_width, max_steps and an explicit integer seed, each with its own
\* BeamSimulator and its own generate_run_id(seed) call, return results equal
\* in every field, the snapshots and the run identifier included.
Determinism ==
    (args.seed.given /\ Done(1) /\ Done(2))
        => SimResult(sim[1]) = SimResult(sim[2])

\* both executions finished a seeded run that drew its actions from the rng
\* and went at least two steps with more than one state in the beam
DeterminismWitness ==
    /\ args.seed.given /\ ~args.scenario.has_actions
    /\ Done(1) /\ Done(2)
    /\ Len(sim[2].intermediate_states) >= 3
    /\ Len(sim[2].beam) >= 2

\* C2 (beam bound): with beam_width >= 1 and max_steps >= 1 every snapshot in
\* intermediate_states, the final one included, holds at most beam_width
\* states, and top_k holds at most beam_width entries.
BeamBound ==
    \A r \in Executions :
        (Ran(r) /\ sim[r].beam_width >= 1 /\ sim[r].max_steps >= 1) =>
            /\ \A k \in 1..Len(sim[r].intermediate_states) :
                 Len(sim[r].intermediate_states[k]) <= sim[r].beam_width
            /\ Done(r) => Len(SimResult(sim[r]).top_k) <= sim[r].beam_width

\* a finished run whose last step generated more candidates than the beam
\* holds, so that the final snapshot is full
BeamBoundWitness ==
    \E r \in Executions :
        /\ Done(r)
        /\ Len(sim[r].generated) > sim[r].beam_width
        /\ Len(sim[r].intermediate_states[Len(sim[r].intermediate_states)])
             = sim[r].beam_width

\* C3 (pruning keeps the best): after the sort and the truncation of a step,
\* the beam holds min(beam_width, number of candidates) of that step's
\* candidates in descending score order, beam[0] has the maximum score of the
\* step's candidates, and no discarded candidate scores more than the least
\* kept one.
PruningKeepsBest ==
    \A r \in Executions :
        (Ran(r) /\ sim[r].step >= 1) =>
            LET gen == sim[r].generated
                beam == sim[r].beam
            IN /\ Range(beam) \subseteq Range(gen)
               /\ Len(beam) = IF Len(gen) < sim[r].beam_width
                              THEN Len(gen) ELSE sim[r].beam_width
               /\ \A i, j \in 1..Len(beam) :
                    i < j => beam[i].score.n >= beam[j].score.n
               /\ \A g \in Range(gen) : Len(beam) > 0 => g.score.n <= beam[1].score.n
               /\ \A g \in Range(gen) \ Range(beam) :
                    \A b \in Range(beam) : g.score.n <= b.score.n

\* a step discarded a candidate that scores strictly less than every kept
\* one, and generated its candidates out of score order
PruningWitness ==
    \E r \in Executions :
        /\ Ran(r) /\ sim[r].step >= 1
        /\ \E g \in Range(sim[r].generated) \ Range(sim[r].beam) :
             \A b \in Range(sim[r].beam) : g.score.n < b.score.n
        /\ \E i, j \in 1..Len(sim[r].generated) :
             i < j /\ sim[r].generated[i].score.n < sim[r].generated[j].score.n

\* C4 (early termination), as claimed: a run whose scenario has an explicit
\* empty action list records exactly one snapshot, that of the initial
\* singleton beam, and its best result is the initial state: its values, its
\* score and its path.
EarlyTermination ==
    \A r \in Executions :
        (Done(r) /\ sim[r].scenario.has_actions
                 /\ Len(sim[r].scenario.actions) = 0) =>
            LET initial_state == sim[r].scenario.initial_state
                res == SimResult(sim[r])
            IN /\ Len(res.intermediate_states) = 1
               /\ res.best_result =
                    [values |-> initial_state,
                     score |-> TotalScore(ScoreFunction(initial_state,
                                                        sim[r].constraints)),
                     path |-> << <<"initial">> >>]

\* C6 (transition purity): expanding a beam leaves every dict that existed
\* before the step as it was (the parents' values, every earlier snapshot,
\* the caller's initial_state), and every candidate's values are a dict that
\* did not exist before the step.
TransitionPurity ==
    [][\A r \in Executions :
          (sim[r].pc = "loop" /\ sim'[r] # sim[r]) =>
              /\ \A i \in 1..Len(sim[r].heap) : sim'[r].heap[i] = sim[r].heap[i]
              /\ \A c \in Range(sim'[r].generated) : c.values > Len(sim[r].heap)
              /\ \A i, j \in 1..Len(sim'[r].generated) :
                   sim'[r].generated[i].values = sim'[r].generated[j].values
                       => i = j]_simvars

\* a step expanded one parent with two actions, of which the first changed a
\* field: a candidate's values differ from the snapshot of its parent
PurityWitness ==
    \E r \in Executions :
        /\ Ran(r) /\ sim[r].step >= 1
        /\ LET gen == sim[r].generated
               snap == sim[r].intermediate_states[sim[r].step]
           IN \E i, j \in 1..Len(gen) : \E p \in 1..Len(snap) :
                /\ i < j
                /\ SubSeq(gen[i].history, 1, Len(gen[i].history) - 1) = snap[p].history
                /\ SubSeq(gen[j].history, 1, Len(gen[j].history) - 1) = snap[p].history
                /\ sim[r].heap[gen[i].values] # sim[r].heap[snap[p].values]
(* ------------------------- the scoring function ----------------------- *)
MaxConstraints == 2

ScoreValues == {IntV(10), IntV(0), FloatV(3), BoolV(TRUE), StrV("a")}

\* states over the fields x and y, each absent or holding a value
ScoreStates ==
    { <<>> }
    \cup { <<Item("x", v)>> : v \in ScoreValues }
    \cup { <<Item("y", v)>> : v \in ScoreValues }
    \cup { <<Item("x", v), Item("y", w)>> : v \in ScoreValues, w \in ScoreValues }

ConstraintPool ==
    { Item([head |-> "max_", tail |-> "x"], IntV(5)),
      Item([head |-> "min_", tail |-> "x"], IntV(1)),
      Item([head |-> "max_", tail |-> "y"], IntV(0)),
      Item([head |-> "min_", tail |-> "z"], IntV(4)),
      Item([head |-> "lim_", tail |-> "x"], IntV(0)) }

ScoreConstraints ==
    {c \in UNION {[1..n -> ConstraintPool] : n \in 0..MaxConstraints} : UniqueKeys(c)}

InitScore ==
    /\ score_state \in ScoreStates
    /\ score_limits \in ScoreConstraints
    /\ score_breakdown = <<>>
    /\ SimUnused
    /\ ServerUnused

\* breakdown = _default_score_function(state, constraints)
Score ==
    /\ score_breakdown = <<>>
    /\ score_breakdown' = ScoreFunction(score_state, score_limits)
    /\ UNCHANGED <<score_state, score_limits, simvars, srvvars>>

NextScore == Score

SpecScore == InitScore /\ [][NextScore]_vars

\* a field the claim counts as numeric: a number, not a boolean or a string
NumericField(v) == v.t \in {"int", "float"}

RECURSIVE ClaimedValueSum(_, _)
ClaimedValueSum(state, i) ==
    IF i = 0 THEN 0
    ELSE ClaimedValueSum(state, i - 1)
         + (IF NumericField(state[i].v) THEN state[i].v.n ELSE 0)

\* by how much a present numeric field exceeds its max_ or falls below its min_
Excess(state, key, limit) ==
    IF key.head \in {"max_", "min_"} /\ DictHas(state, key.tail)
       /\ NumericField(DictGet(state, key.tail, IntV(0)))
    THEN LET actual == DictGet(state, key.tail, IntV(0)).n
         IN IF key.head = "max_" THEN MaxOf(actual - limit.n, 0)
            ELSE MaxOf(limit.n - actual, 0)
    ELSE 0

RECURSIVE ClaimedExcess(_, _, _)
ClaimedExcess(state, constraints, i) ==
    IF i = 0 THEN 0
    ELSE ClaimedExcess(state, constraints, i - 1)
         + Excess(state, constraints[i].k, constraints[i].v)

\* C5 (scoring correctness), as claimed: the breakdown has exactly the
\* components value_sum and constraint_penalty; value_sum is the sum of the
\* numeric-valued fields, non-numeric fields ignored; constraint_penalty is
\* minus 10 times the total amount by which present numeric fields exceed
\* their max_ limit or fall below their min_ limit.
ScoringCorrect ==
    score_breakdown # <<>> =>
        /\ DictKeys(score_breakdown) = <<"value_sum", "constraint_penalty">>
        /\ DictGet(score_breakdown, "value_sum", IntV(0)).n
             = ClaimedValueSum(score_state, Len(score_state))
        /\ DictGet(score_breakdown, "constraint_penalty", IntV(0)).n
             = -10 * ClaimedExcess(score_state, score_limits, Len(score_limits))

\* C5, on states without a boolean field: there the breakdown is as claimed
ScoringCorrectNoBool ==
    (score_breakdown # <<>> /\ \A i \in 1..Len(score_state) : score_state[i].v.t # "bool")
        => ScoringCorrect

\* C5's example: {x: 10} under {max_x: 5} scores 10 - 50 = -40
ScoringExample ==
    (score_breakdown # <<>> /\ score_state = <<Item("x", IntV(10))>>
       /\ score_limits = <<Item([head |-> "max_", tail |-> "x"], IntV(5))>>)
        => /\ score_breakdown = << Item("value_sum", IntV(10)),
                                   Item("constraint_penalty", FloatV(-50)) >>
           /\ TotalScore(score_breakdown) = FloatV(-40)
(* ------------------------- the whole of run() ------------------------- *)
RECURSIVE RunLoop(_)
\* run() from its loop to its return
RunLoop(s) ==
    IF s.pc = "loop" THEN RunLoop(SimStep(s))
    ELSE IF s.pc = "final" THEN SimFinish(s)
    ELSE s

(* -------------------------------- JSON -------------------------------- *)
\* json.dumps of a scalar: a number literal (with a fraction for a float),
\* true/false, or a string
EncScalar(v) ==
    IF v.t = "int" THEN [j |-> "number", n |-> v.n, frac |-> FALSE, s |-> ""]
    ELSE IF v.t = "float" THEN [j |-> "number", n |-> v.n, frac |-> TRUE, s |-> ""]
    ELSE IF v.t = "bool"
         THEN [j |-> IF v.n = 1 THEN "true" ELSE "false", n |-> 0, frac |-> FALSE,
               s |-> ""]
    ELSE [j |-> "string", n |-> 0, frac |-> FALSE, s |-> v.s]

\* json.loads of a scalar
DecScalar(x) ==
    IF x.j = "number" THEN (IF x.frac THEN FloatV(x.n) ELSE IntV(x.n))
    ELSE IF x.j = "true" THEN BoolV(TRUE)
    ELSE IF x.j = "false" THEN BoolV(FALSE)
    ELSE StrV(x.s)

\* a dict of scalars <-> an object: its members in order
EncDict(d) == [i \in 1..Len(d) |-> [name |-> d[i].k, value |-> EncScalar(d[i].v)]]
DecDict(o) == [i \in 1..Len(o) |-> [k |-> o[i].name, v |-> DecScalar(o[i].value)]]

\* the constraints dict: a member's name is the whole key, head and tail joined
EncConstraints(d) ==
    [i \in 1..Len(d) |-> [name |-> <<d[i].k.head, d[i].k.tail>>,
                          value |-> EncScalar(d[i].v)]]
DecConstraints(o) ==
    [i \in 1..Len(o) |-> [k |-> [head |-> o[i].name[1], tail |-> o[i].name[2]],
                          v |-> DecScalar(o[i].value)]]

\* a list of str <-> an array of strings
EncStrings(l) == [i \in 1..Len(l) |-> [j |-> "string", s |-> l[i]]]
DecStrings(a) == [i \in 1..Len(a) |-> a[i].s]

\* {"values", "score", "path"} dicts (best_result, top_k entries)
EncResultState(st) ==
    [values |-> EncDict(st.values), score |-> EncScalar(st.score),
     path |-> EncStrings(st.path)]
DecResultState(o) ==
    [values |-> DecDict(o.values), score |-> DecScalar(o.score),
     path |-> DecStrings(o.path)]

\* {"values", "score", "history"} dicts (snapshot entries)
EncSnapshotState(st) ==
    [values |-> EncDict(st.values), score |-> EncScalar(st.score),
     history |-> EncStrings(st.history)]
DecSnapshotState(o) ==
    [values |-> DecDict(o.values), score |-> DecScalar(o.score),
     history |-> DecStrings(o.history)]

\* the scenario dict: "actions" is a member only when the key is present
EncScenario(sc) ==
    << [name |-> "initial_state", value |-> EncDict(sc.initial_state)] >>
    \o (IF sc.has_actions
        THEN << [name |-> "actions",
                 value |-> [i \in 1..Len(sc.actions) |-> EncDict(sc.actions[i])]] >>
        ELSE <<>>)
DecScenario(o) ==
    LET has == \E i \in 1..Len(o) : o[i].name = "actions"
    IN [initial_state |-> DecDict(o[1].value),
        has_actions |-> has,
        actions |-> IF has THEN [i \in 1..Len(o[2].value) |-> DecDict(o[2].value[i])]
                    ELSE <<>>]

\* the record save_simulation is given, as json.dumps writes it
EncRecord(data) ==
    [run_id |-> [j |-> "string", s |-> data.run_id],
     best_result |-> EncResultState(data.best_result),
     top_k |-> [i \in 1..Len(data.top_k) |-> EncResultState(data.top_k[i])],
     score_breakdown |-> EncDict(data.score_breakdown),
     intermediate_states |->
        [k \in 1..Len(data.intermediate_states) |->
            [i \in 1..Len(data.intermediate_states[k]) |->
                EncSnapshotState(data.intermediate_states[k][i])]],
     scenario |-> EncScenario(data.scenario),
     constraints |-> EncConstraints(data.constraints)]

\* and as json.loads reads it back
DecRecord(o) ==
    [run_id |-> o.run_id.s,
     best_result |-> DecResultState(o.best_result),
     top_k |-> [i \in 1..Len(o.top_k) |-> DecResultState(o.top_k[i])],
     score_breakdown |-> DecDict(o.score_breakdown),
     intermediate_states |->
        [k \in 1..Len(o.intermediate_states) |->
            [i \in 1..Len(o.intermediate_states[k]) |->
                DecSnapshotState(o.intermediate_states[k][i])]],
     scenario |-> DecScenario(o.scenario),
     constraints |-> DecConstraints(o.constraints)]

\* a file's text: nothing, or "{", the members written so far, and "}" once
\* the document is complete
EmptyText == [opened |-> FALSE, members |-> <<>>, closed |-> FALSE]

\* json.dumps(storage, indent=2)
Dumps(storage) ==
    [opened |-> TRUE,
     members |-> [i \in 1..Len(storage) |->
                    [name |-> storage[i].k, value |-> EncRecord(storage[i].v)]],
     closed |-> TRUE]

\* the first k members of a text, the rest not written
Prefix(text, k) ==
    [opened |-> TRUE, members |-> SubSeq(text.members, 1, k), closed |-> FALSE]

\* a complete document (or no text at all, which _read_storage takes for {})
Complete(text) == text.closed \/ ~text.opened

\* json.loads(content) if content.strip() else {}   (for a complete text)
Loads(text) ==
    IF ~text.opened THEN <<>>
    ELSE [i \in 1..Len(text.members) |->
            [k |-> text.members[i].name, v |-> DecRecord(text.members[i].value)]]

(* ------------------------------ explain ------------------------------- *)
\* f"{value:.2f}": the digits of a number to two decimals
Fmt2(v) == <<v.n, ".00">>

\* BeamSimulator.explain: the parts of the text, in order
Explain(result) ==
    [title |-> result.run_id,
     starting_state |-> result.scenario.initial_state,
     constraints_applied |->
        [none |-> Len(result.constraints) = 0, dict |-> result.constraints],
     steps |-> Len(result.intermediate_states),
     kept |-> Len(result.top_k),
     winning_path |->
        [i \in 1..Len(result.best_result.path) |-> <<i - 1, result.best_result.path[i]>>],
     breakdown |->
        [i \in 1..Len(result.score_breakdown) |->
            <<result.score_breakdown[i].k, Fmt2(result.score_breakdown[i].v)>>],
     total |-> Fmt2(result.best_result.score),
     respected |->
        IF Len(result.constraints) > 0 THEN <<DictKeys(result.constraints)>>
        ELSE <<>>]
(* ------------------------------ the store ----------------------------- *)
MaxTasks == 3
MaxRequests == 2
MaxCalls == 2

\* request tasks, numbered in the order the requests arrive
Tasks == DOMAIN task

\* STORAGE_FILE
StorageFile == <<"simulations.json", 0>>

\* tmp_path = STORAGE_FILE: the document rewritten in place
TmpPathInPlace(t) == StorageFile

\* tempfile.mkstemp(dir=dir_path, suffix=".tmp"): a name no other call gets
TmpPath(t) == <<"tmp", t>>

Paths(n) == {StorageFile} \cup {TmpPath(t) : t \in 1..n}

NoFile == [exists |-> FALSE, text |-> EmptyText]

\* mkstemp, or open(path, "w"): the path names an empty file
Created(fs, path) == [fs EXCEPT ![path] = [exists |-> TRUE, text |-> EmptyText]]

\* if os.path.exists(tmp_path): os.unlink(tmp_path)
Unlinked(fs, t) == [fs EXCEPT ![TmpPath(t)] = NoFile]

\* os.replace(tmp_path, STORAGE_FILE): one atomic rename
Replaced(fs, t) ==
    IF TmpPath(t) = StorageFile THEN fs
    ELSE [fs EXCEPT ![StorageFile] = fs[TmpPath(t)], ![TmpPath(t)] = NoFile]

\* a copy that stops half way: the store file holds "{" and nothing more
CopyFailed(fs, t) ==
    [Unlinked(fs, t) EXCEPT ![StorageFile] =
        [exists |-> TRUE, text |-> Prefix(fs[TmpPath(t)].text, 0)]]

\* os.replace raising: nothing renamed, then the except clause's cleanup
ReplaceFailed(fs, t) == Unlinked(fs, t)

(* ------------------------------ the lock ------------------------------ *)
LockBusyNever(l) == FALSE

\* asyncio.Lock.acquire has to wait: the lock is held, or others wait for it
LockBusy(l) == l.locked \/ Len(l.waiters) > 0

Acquired(l) == [l EXCEPT !.locked = TRUE]

\* the lock left as it is when the block is left
ReleaseKept(l) == l

\* asyncio.Lock.release: the first waiter is woken and takes the lock later
Release(l) == [l EXCEPT !.locked = FALSE]

Without(seq, t) ==
    IF \E i \in 1..Len(seq) : seq[i] = t
    THEN LET at == CHOOSE i \in 1..Len(seq) : seq[i] = t
         IN SubSeq(seq, 1, at - 1) \o SubSeq(seq, at + 1, Len(seq))
    ELSE seq

(* ------------------------------ requests ------------------------------ *)
\* a scenario without initial state values: run() raises
RunEmpty ==
    [scenario |-> [initial_state |-> <<>>, has_actions |-> FALSE, actions |-> <<>>],
     constraints |-> <<>>, beam_width |-> 1, max_steps |-> 1, seed |-> NoSeed]

\* explicit actions, a constraint, two candidates kept
RunSeeded(seed) ==
    [scenario |-> [initial_state |-> << Item("x", IntV(2)), Item("y", IntV(0)) >>,
                   has_actions |-> TRUE,
                   actions |-> << << Item("type", StrV("increment")),
                                     Item("field", StrV("x")) >>,
                                  << Item("type", StrV("set")),
                                     Item("field", StrV("z")),
                                     Item("value", StrV("a")) >> >>],
     constraints |-> << Item([head |-> "max_", tail |-> "x"], IntV(1)) >>,
     beam_width |-> 2, max_steps |-> 1, seed |-> seed]

\* default actions drawn from the rng, a boolean field
RunDefault(seed) ==
    [scenario |-> [initial_state |-> << Item("x", IntV(1)),
                                        Item("flag", BoolV(TRUE)) >>,
                   has_actions |-> FALSE, actions |-> <<>>],
     constraints |-> <<>>, beam_width |-> 1, max_steps |-> 1, seed |-> seed]

NoId == <<"", 0>>

\* a key the arguments do not have: dict.get returns its default
Absent == [t |-> "absent", n |-> 0, s |-> ""]

NoArgs == [seed |-> Absent]

\* the isinstance test forgotten
IsIntAlways(v) == TRUE

\* isinstance(v, int): a bool is an int
IsInt(v) == v.t \in {"int", "bool"}

\* the arguments dict of a simulate_run call with these parameters, all given
Arguments(a) ==
    [scenario |-> [t |-> "object", has_initial_state |-> TRUE,
                   initial_state |-> a.scenario.initial_state,
                   has_actions |-> a.scenario.has_actions,
                   actions |-> a.scenario.actions],
     constraints |-> a.constraints,
     beamWidth |-> IntV(a.beam_width), maxSteps |-> IntV(a.max_steps),
     seed |-> IF a.seed.given THEN IntV(a.seed.v) ELSE Absent]

\* args.get("beamWidth", 5), args.get("maxSteps", 10)
DefaultBeamWidth == 5
DefaultMaxSteps == 10
GetOr(v, default) == IF v = Absent THEN IntV(default) ELSE v

Invalid(msg) == [ok |-> FALSE, msg |-> msg]

\* _handle_simulate_run up to generate_run_id: the parameters of the run, or
\* the ValueError raised
Validated(arguments) ==
    LET scenario == arguments.scenario
        beam_width == GetOr(arguments.beamWidth, DefaultBeamWidth)
        max_steps == GetOr(arguments.maxSteps, DefaultMaxSteps)
    IN IF scenario.t = "absent"
          \/ (scenario.t = "object" /\ ~scenario.has_initial_state
                /\ ~scenario.has_actions)
       THEN Invalid("Missing required field: scenario")
       ELSE IF scenario.t # "object"
       THEN Invalid("scenario must be an object")
       ELSE IF ~scenario.has_initial_state
       THEN Invalid("scenario must contain 'initial_state'")
       ELSE IF ~IsInt(beam_width) \/ beam_width.n < 1
       THEN Invalid("beamWidth must be a positive integer")
       ELSE IF ~IsInt(max_steps) \/ max_steps.n < 1
       THEN Invalid("maxSteps must be a positive integer")
       ELSE IF arguments.seed # Absent /\ ~IsInt(arguments.seed)
       THEN Invalid("seed must be an integer")
       ELSE [ok |-> TRUE,
             scenario |-> [initial_state |-> scenario.initial_state,
                           has_actions |-> scenario.has_actions,
                           actions |-> scenario.actions],
             constraints |-> arguments.constraints,
             beam_width |-> beam_width.n, max_steps |-> max_steps.n,
             seed |-> IF arguments.seed = Absent THEN NoSeed ELSE SeedOf(arguments.seed.n)]

RunRequest(a) == [kind |-> "run", args |-> Arguments(a), runId |-> NoId]
RunArguments(arguments) == [kind |-> "run", args |-> arguments, runId |-> NoId]
ExplainRequest(id) == [kind |-> "explain", args |-> NoArgs, runId |-> id]
ListRequest == [kind |-> "list", args |-> NoArgs, runId |-> NoId]

\* read_resource(uri): the uri has the scheme "simulations://" or another one,
\* and id is the rest of it
ReadRequest(scheme, id) ==
    [kind |-> "read", args |-> NoArgs, runId |-> id, scheme |-> scheme]

\* a runId that is missing, and one that is the number 5
NoRunId == <<"absent", 0>>
NumberId == <<"int", 5>>

\* the requests of the store's specification: two runs with different run
\* ids, a reader and a lister
StoreRequests ==
    { RunRequest(RunSeeded(SeedOf(1))), RunRequest(RunDefault(SeedOf(2))),
      ExplainRequest(GenerateRunId(SeedOf(1), 0)), ListRequest }

\* the requests of the handlers' specification
ServerRequests ==
    { RunRequest(RunEmpty), RunRequest(RunSeeded(SeedOf(1))),
      RunRequest(RunDefault(SeedOf(1))), RunRequest(RunDefault(NoSeed)),
      ExplainRequest(GenerateRunId(SeedOf(1), 0)), ExplainRequest(UuidText(15)),
      ListRequest }

\* simulate_run calls whose arguments fail a check, and calls that pass
Base == Arguments(RunSeeded(SeedOf(1)))
BadRuns ==
    { [Base EXCEPT !.scenario.t = "absent"],
      [Base EXCEPT !.scenario.t = "str"],
      [Base EXCEPT !.scenario.has_initial_state = FALSE],
      [Base EXCEPT !.scenario.has_initial_state = FALSE,
                   !.scenario.has_actions = FALSE],
      [Base EXCEPT !.scenario.initial_state = <<>>],
      [Base EXCEPT !.beamWidth = IntV(0)],
      [Base EXCEPT !.beamWidth = FloatV(2)],
      [Base EXCEPT !.maxSteps = StrV("3")],
      [Base EXCEPT !.maxSteps = IntV(0 - 1)],
      [Base EXCEPT !.seed = StrV("1")],
      [Base EXCEPT !.beamWidth = IntV(0), !.maxSteps = Absent] }
GoodRuns ==
    { Base,
      [Base EXCEPT !.beamWidth = Absent],
      [Base EXCEPT !.beamWidth = BoolV(TRUE), !.seed = Absent] }

\* the requests of the specification of input checking
InputRequests ==
    {RunArguments(a) : a \in BadRuns \cup GoodRuns}
    \cup {ExplainRequest(id) :
            id \in {NoRunId, NoId, NumberId, GenerateRunId(SeedOf(1), 0), UuidText(15)}}
    \cup {ReadRequest(FALSE, GenerateRunId(SeedOf(1), 0)), ReadRequest(TRUE, NoId),
          ReadRequest(TRUE, GenerateRunId(SeedOf(1), 0)),
          ReadRequest(TRUE, UuidText(15))}

\* "top_k": [result.best_result]: the wrong field saved
RunRecordTopK(result) ==
    [run_id |-> result.run_id, best_result |-> result.best_result,
     top_k |-> <<result.best_result>>, score_breakdown |-> result.score_breakdown,
     intermediate_states |-> result.intermediate_states,
     scenario |-> result.scenario, constraints |-> result.constraints]

\* the dict _handle_simulate_run gives save_simulation
RunRecord(result) ==
    [run_id |-> result.run_id, best_result |-> result.best_result,
     top_k |-> result.top_k, score_breakdown |-> result.score_breakdown,
     intermediate_states |-> result.intermediate_states,
     scenario |-> result.scenario, constraints |-> result.constraints]

\* the SimulationResult _handle_simulate_explain builds from the stored dict
Reconstruct(data) ==
    [run_id |-> data.run_id, best_result |-> data.best_result,
     top_k |-> data.top_k, score_breakdown |-> data.score_breakdown,
     intermediate_states |-> data.intermediate_states,
     scenario |-> data.scenario, constraints |-> data.constraints]
(* ------------------------- the request handlers ----------------------- *)
\* Each operator below gives the files, the lock and the task's locals after
\* a stretch of code that runs without suspending.

\* a handler's exit with the lock released; err names what was raised
\* ("read": an I/O error on the store file, "json": json.loads rejected its
\* text, "write": the rewrite failed).  The handler's locals are gone; the
\* request and the response stay on record.  canon0 is a history local: the
\* store file as it was when the lock was taken.
Exit(fs, l, tk, pc, err) ==
    [files |-> fs, lock |-> Release(l),
     tk |-> [tk EXCEPT !.pc = pc, !.err = err, !.data = <<>>, !.storage = <<>>,
                       !.canon0 = NoFile]]

\* from the return of _read_storage to the operation's next suspension:
\* get_simulation and list_simulations return; save_simulation sets its
\* entry and enters _write_storage up to "await aiofiles.open(tmp_path)"
Continue(fs, l, tk, storage, t, mkstemp_ok) ==
    IF tk.req.kind = "run"
    THEN IF mkstemp_ok
         THEN [files |-> Created(fs, TmpPath(t)), lock |-> l,
               tk |-> [tk EXCEPT !.pc = "writing",
                                 !.storage = DictSet(storage, tk.run_id, tk.data)]]
         ELSE Exit(fs, l, tk, "failed", "write")
    ELSE IF tk.req.kind \in {"explain", "read"}
    THEN IF DictHas(storage, tk.req.runId)
         THEN LET data == DictGet(storage, tk.req.runId, <<>>)
              IN Exit(fs, l,
                      [tk EXCEPT !.out =
                          [status |-> "ok", data |-> data,
                           text |-> IF tk.req.kind = "explain"
                                    THEN Explain(Reconstruct(data))
                                    ELSE EncRecord(data)]],
                      "done", "")
         ELSE Exit(fs, l, [tk EXCEPT !.out = [status |-> "not_found"],
                                     !.msg = "Simulation not found"],
                   "failed", "ValueError")
    ELSE Exit(fs, l, [tk EXCEPT !.out = [status |-> "ok", ids |-> DictKeys(storage)]],
              "done", "")

\* "async with _lock" entered, and _read_storage up to its first suspension
Enter(fs, l, tk, t, mkstemp_ok) ==
    LET held == [tk EXCEPT !.canon0 = fs[StorageFile]]
    IN IF fs[StorageFile].exists
       THEN [files |-> fs, lock |-> Acquired(l), tk |-> [held EXCEPT !.pc = "reading"]]
       ELSE Continue(fs, Acquired(l), held, <<>>, t, mkstemp_ok)

\* a task's locals when its handler starts
NewTask(req) ==
    [pc |-> "started", err |-> "", req |-> req, run_id |-> NoId,
     data |-> <<>>, storage |-> <<>>, out |-> <<>>, canon0 |-> NoFile, msg |-> ""]

\* the handler raises ValueError(msg) before it reaches the store
Rejected(req, msg) ==
    [NewTask(req) EXCEPT !.pc = "rejected", !.err = "ValueError", !.msg = msg]

\* the checks of runId forgotten
ExplainPrefixUnchecked(req) == NewTask(req)

\* _handle_simulate_explain up to "await get_simulation(run_id)"
ExplainPrefix(req) ==
    IF req.runId[1] \in {"absent", ""}
    THEN Rejected(req, "Missing required field: runId")
    ELSE IF req.runId[1] # "uuid"
    THEN Rejected(req, "runId must be a string")
    ELSE NewTask(req)

\* read_resource up to "await get_simulation(run_id)"
ReadPrefix(req) ==
    IF ~req.scheme
    THEN Rejected(req, "Invalid resource URI scheme")
    ELSE IF req.runId[1] = ""
    THEN Rejected(req, "Missing run ID in URI")
    ELSE NewTask(req)

\* _handle_simulate_run up to "await save_simulation(...)"
RunPrefix(req, entropy) ==
    LET Recorded(run_id, s) ==
            IF s.pc = "error"
            THEN Rejected(req, "Scenario must contain 'initial_state'")
            ELSE [NewTask(req) EXCEPT !.run_id = run_id,
                                      !.data = RunRecord(SimResult(s))]
        Simulated(a, run_id) ==
            Recorded(run_id, RunLoop(SimStart(run_id, a.scenario, a.constraints,
                                              a.beam_width, a.max_steps, a.seed)))
        Checked(a) ==
            IF a.ok THEN Simulated(a, GenerateRunId(a.seed, entropy))
            ELSE Rejected(req, a.msg)
    IN Checked(Validated(req.args))

InitTasks(n, reqs) ==
    /\ files = [p \in Paths(n) |-> NoFile]
    /\ lock = [locked |-> FALSE, waiters |-> <<>>]
    /\ task = [t \in 1..n |-> [pc |-> "idle"]]
    /\ requests = reqs
    /\ committed = {NoFile}
    /\ SimUnused
    /\ ScoreUnused

InitStore == InitTasks(MaxTasks, StoreRequests)

InitServer == InitTasks(MaxRequests, ServerRequests)

InitInput == InitTasks(MaxCalls, InputRequests)

\* a save, a lookup of an id that was never saved and a listing, each as
\* often as there are tasks
LiveRequests ==
    { RunRequest(RunSeeded(SeedOf(1))), ReadRequest(TRUE, UuidText(15)),
      ListRequest }

InitLive == InitTasks(MaxTasks, LiveRequests)

Put(t, r) ==
    /\ files' = r.files
    /\ lock' = r.lock
    /\ task' = [task EXCEPT ![t] = r.tk]
    /\ committed' = committed \cup {r.files[StorageFile]}
    /\ UNCHANGED <<requests, simvars, scorevars>>

\* uuid.uuid4() does not return a value it returned to an earlier request
Fresh(entropy) ==
    \A q \in Tasks : task[q].pc # "idle" => task[q].run_id # UuidText(entropy)

\* a request arrives: its handler runs to its first suspension
Start(t) ==
    /\ task[t].pc = "idle"
    /\ \A q \in Tasks : q < t => task[q].pc # "idle"
    /\ \E req \in requests, entropy \in Entropy, mkstemp_ok \in BOOLEAN :
         LET Arrive(tk) ==
                 IF tk.pc = "rejected"
                 THEN Put(t, [files |-> files, lock |-> lock, tk |-> tk])
                 ELSE IF LockBusy(lock)
                 THEN Put(t, [files |-> files,
                              lock |-> [lock EXCEPT !.waiters = Append(@, t)],
                              tk |-> [tk EXCEPT !.pc = "waiting"]])
                 ELSE Put(t, Enter(files, lock, tk, t, mkstemp_ok))
         IN /\ (req.kind = "run" /\ req.args.seed = Absent) => Fresh(entropy)
            /\ Arrive(IF req.kind = "run" THEN RunPrefix(req, entropy)
                      ELSE IF req.kind = "explain" THEN ExplainPrefix(req)
                      ELSE IF req.kind = "read" THEN ReadPrefix(req)
                      ELSE NewTask(req))

\* the first waiter takes the released lock
Wake(t) ==
    /\ task[t].pc = "waiting"
    /\ ~lock.locked
    /\ Len(lock.waiters) > 0 /\ Head(lock.waiters) = t
    /\ \E mkstemp_ok \in BOOLEAN :
         Put(t, Enter(files, [lock EXCEPT !.waiters = Tail(@)], task[t], t, mkstemp_ok))

\* "content = await f.read()" returns, then json.loads
ReadStep(t) ==
    /\ task[t].pc = "reading"
    /\ LET text == files[StorageFile].text
           tk == task[t]
       IN IF Complete(text)
          THEN \E mkstemp_ok \in BOOLEAN :
                  Put(t, Continue(files, lock, tk, Loads(text), t, mkstemp_ok))
          ELSE Put(t, Exit(files, lock, tk, "failed", "json"))

\* opening or reading the store file raises
ReadFail(t) ==
    /\ task[t].pc = "reading"
    /\ Put(t, Exit(files, lock, task[t], "failed", "read"))

\* "await f.write(...)" in progress: some first part of the text is on disk
WritePart(t) ==
    /\ task[t].pc = "writing"
    /\ files[TmpPath(t)].text = EmptyText
    /\ \E k \in 0..Len(task[t].storage) :
         Put(t, [files |-> [files EXCEPT ![TmpPath(t)].text =
                                Prefix(Dumps(task[t].storage), k)],
                 lock |-> lock, tk |-> task[t]])

\* "await f.write(...)" returns: the whole text is on disk
WriteAll(t) ==
    /\ task[t].pc = "writing"
    /\ Put(t, [files |-> [files EXCEPT ![TmpPath(t)].text = Dumps(task[t].storage)],
               lock |-> lock, tk |-> [task[t] EXCEPT !.pc = "closing"]])

\* opening, writing or closing the temporary file raises: the except clause
WriteFail(t) ==
    /\ task[t].pc \in {"writing", "closing"}
    /\ Put(t, Exit(Unlinked(files, t), lock, task[t], "failed", "write"))

\* the file is closed and os.replace renames it; save_simulation returns
Replace(t) ==
    /\ task[t].pc = "closing"
    /\ Put(t, Exit(Replaced(files, t), lock,
                   [task[t] EXCEPT !.out = [status |-> "ok"]], "done", ""))

\* os.replace raises
ReplaceFail(t) ==
    /\ task[t].pc = "closing"
    /\ Put(t, Exit(ReplaceFailed(files, t), lock, task[t], "failed", "write"))

\* the task is cancelled where it is suspended: CancelledError is not an
\* Exception, so only the "async with" blocks unwind
Cancel(t) ==
    /\ task[t].pc \in {"waiting", "reading", "writing", "closing"}
    /\ IF task[t].pc = "waiting"
       THEN Put(t, [files |-> files,
                    lock |-> [lock EXCEPT !.waiters = Without(@, t)],
                    tk |-> [task[t] EXCEPT !.pc = "cancelled"]])
       ELSE Put(t, Exit(files, lock, task[t], "cancelled", ""))

Next ==
    \/ \E t \in Tasks : Start(t)
    \/ \E t \in Tasks : Wake(t)
    \/ \E t \in Tasks : ReadStep(t)
    \/ \E t \in Tasks : ReadFail(t)
    \/ \E t \in Tasks : WritePart(t)
    \/ \E t \in Tasks : WriteAll(t)
    \/ \E t \in Tasks : WriteFail(t)
    \/ \E t \in Tasks : Replace(t)
    \/ \E t \in Tasks : ReplaceFail(t)
    \/ \E t \in Tasks : Cancel(t)

\* the store under concurrent requests
Spec == InitStore /\ [][Next]_vars

\* the handlers over every kind of request
SpecServer == InitServer /\ [][Next]_vars

\* the handlers over well-formed and malformed arguments
SpecInput == InitInput /\ [][Next]_vars

\* what the event loop and the file I/O do for task t without anything from
\* outside: a woken waiter is run, an awaited read, write or close returns or
\* raises.  A cancellation comes from outside and is no part of it.
Progress(t) ==
    \/ Wake(t)
    \/ ReadStep(t)
    \/ ReadFail(t)
    \/ WriteAll(t)
    \/ WriteFail(t)
    \/ Replace(t)
    \/ ReplaceFail(t)

\* the store under a fair event loop: no ready task is left out forever
SpecLive ==
    InitLive /\ [][Next]_vars /\ \A t \in 1..MaxTasks : WF_vars(Progress(t))
(* ------------------------- claims on the store ------------------------ *)
Saved(t) == task[t].pc = "done" /\ task[t].req.kind = "run"

\* the store as get_simulation would read it now
Stored == Loads(files[StorageFile].text)

\* what run() returned to the handler of a run request that got its run id
RunResultOf(t) ==
    LET Result(a) ==
            SimResult(RunLoop(SimStart(task[t].run_id, a.scenario, a.constraints,
                                       a.beam_width, a.max_steps, a.seed)))
    IN Result(Validated(task[t].req.args))

\* C7 (atomic write): when a save_simulation call ends in an error (or is
\* cancelled) at any point, creating, writing or replacing the temporary file
\* included, the store file is left as it was: unchanged by the failing step,
\* and equal to what it was when the call took the lock and read it.
AtomicWrite ==
    [][\A t \in Tasks :
          (task[t].pc \notin {"failed", "cancelled"}
             /\ task'[t].pc \in {"failed", "cancelled"}
             /\ task'[t].req.kind = "run") =>
              /\ files'[StorageFile] = files[StorageFile]
              /\ task[t].pc \in {"writing", "closing"}
                   => files'[StorageFile] = task[t].canon0]_vars

\* a save failed in its rewrite while the store held a record
AtomicWriteWitness ==
    \E t \in Tasks :
        /\ task[t].pc = "failed" /\ task[t].err = "write"
        /\ files[StorageFile].exists
        /\ Len(Stored) >= 1

\* C8 (no partial reads): the store file holds a complete document at every
\* moment, no read ever fails to parse it, and what get_simulation and
\* list_simulations return is what some complete store held: the store
\* before a save or the store after it.
NoPartialReads ==
    /\ Complete(files[StorageFile].text)
    /\ \A t \in Tasks :
         /\ task[t].pc = "failed" => task[t].err # "json"
         /\ (task[t].pc = "done" /\ task[t].req.kind = "explain") =>
              \E c \in committed :
                  /\ Complete(c.text)
                  /\ DictHas(Loads(c.text), task[t].req.runId)
                  /\ DictGet(Loads(c.text), task[t].req.runId, <<>>)
                       = task[t].out.data
         /\ (task[t].pc = "failed" /\ task[t].req.kind = "explain"
               /\ task[t].msg = "Simulation not found") =>
              \E c \in committed :
                  Complete(c.text) /\ ~DictHas(Loads(c.text), task[t].req.runId)
         /\ (task[t].pc = "done" /\ task[t].req.kind = "list") =>
              \E c \in committed :
                  Complete(c.text) /\ DictKeys(Loads(c.text)) = task[t].out.ids

\* a reader returned a stored record while a save was rewriting the store:
\* the temporary file holds part of the new text
NoPartialReadsWitness ==
    \E t, w \in Tasks :
        /\ task[t].pc = "done" /\ task[t].req.kind = "explain"
        /\ task[t].out.status = "ok"
        /\ task[w].pc = "writing"
        /\ files[TmpPath(w)].text.opened /\ ~files[TmpPath(w)].text.closed

\* C9 (no lost updates): once concurrent save_simulation calls have completed,
\* the store holds the record of every one of them under its run id.
NoLostUpdates ==
    \A t \in Tasks :
        Saved(t) =>
            /\ DictHas(Stored, task[t].run_id)
            /\ DictGet(Stored, task[t].run_id, <<>>) = RunRecord(RunResultOf(t))

\* two saves with different run ids have completed
NoLostUpdatesWitness ==
    \E t, u \in Tasks :
        /\ Saved(t) /\ Saved(u)
        /\ task[t].run_id # task[u].run_id
        /\ Len(Stored) = 2

\* C10 (round trip): the record an explain request loads with get_simulation
\* reconstructs a SimulationResult equal in all seven fields to the one a run
\* request saved under that run id, and its explanation is the text explain()
\* gives for the original.
RoundTrip ==
    \A e \in Tasks :
        (task[e].pc = "done" /\ task[e].req.kind = "explain"
           /\ task[e].out.status = "ok") =>
            \E t \in Tasks :
                LET Same(original) ==
                        /\ Reconstruct(task[e].out.data) = original
                        /\ task[e].out.text = Explain(original)
                IN /\ Saved(t)
                   /\ task[t].run_id = task[e].req.runId
                   /\ Same(RunResultOf(t))

\* an explain request reloaded a result with two kept candidates, a string
\* value and a constraint
RoundTripWitness ==
    \E e \in Tasks :
        /\ task[e].pc = "done" /\ task[e].req.kind = "explain"
        /\ task[e].out.status = "ok"
        /\ Len(task[e].out.data.top_k) = 2
        /\ Len(task[e].out.data.constraints) = 1
        /\ \E i \in 1..Len(task[e].out.data.best_result.values) :
             task[e].out.data.best_result.values[i].v.t = "str"
(* ------------------------ claims on the handlers ---------------------- *)
\* C11 (run identifier uniqueness): two distinct simulate_run executions
\* never obtain the same run identifier, and the record stored for a completed
\* execution stays the one retrievable under its identifier.
RunIdUnique ==
    \A t \in Tasks :
        Saved(t) =>
            /\ \A u \in Tasks \ {t} : Saved(u) => task[u].run_id # task[t].run_id
            /\ DictHas(Stored, task[t].run_id)
            /\ DictGet(Stored, task[t].run_id, <<>>) = RunRecord(RunResultOf(t))
\* v is an integer (Python counts True and False as integers)
Integral(v) == v.t = "int" \/ v.t = "bool"

\* v is a positive integer
PositiveInt(v) == Integral(v) /\ v.n >= 1

\* the arguments of a simulate_run request are not acceptable
Malformed(a) ==
    \/ a.scenario.t # "object"
    \/ ~a.scenario.has_initial_state
    \/ a.scenario.initial_state = <<>>
    \/ ~PositiveInt(GetOr(a.beamWidth, DefaultBeamWidth))
    \/ ~PositiveInt(GetOr(a.maxSteps, DefaultMaxSteps))
    \/ (a.seed # Absent /\ ~Integral(a.seed))

\* C12 (invalid input is never partially applied): a simulate_run request
\* whose arguments are not acceptable is rejected with an error, and the step
\* that rejects a request leaves the store's files as they were: nothing of a
\* rejected request is persisted, then or later.
InvalidNotApplied ==
    [][\A t \in Tasks :
          /\ (task'[t].pc # "idle" /\ task'[t].req.kind = "run"
                /\ Malformed(task'[t].req.args))
               => task'[t].pc = "rejected"
          /\ (task[t].pc # "rejected" /\ task'[t].pc = "rejected")
               => (files' = files /\ committed' = committed /\ lock' = lock)
          /\ task[t].pc = "rejected" => task'[t] = task[t]]_vars

\* a request was rejected for its seed while the store held a record
InvalidNotAppliedWitness ==
    \E t \in Tasks :
        /\ task[t].pc = "rejected"
        /\ task[t].msg = "seed must be an integer"
        /\ Len(Stored) = 1
\* the messages of the errors reported for malformed lookups
InvalidMessages ==
    {"Missing required field: runId", "runId must be a string",
     "Invalid resource URI scheme", "Missing run ID in URI"}

\* an explain request without a string run id, a resource uri that is not
\* "simulations://<run id>"
MalformedLookup(req) ==
    \/ req.runId[1] # "uuid"
    \/ (req.kind = "read" /\ ~req.scheme)

\* C13 (NotFound is distinct from InvalidInput): when an explain or
\* resource-read request ends in an error of the handler, a malformed request
\* is reported with one of the invalid-input messages, and a well-formed one
\* with "Simulation not found", which is none of them, and only if its run id
\* is not in the store at that moment.
NotFoundDistinct ==
    [][\A t \in Tasks :
          (/\ task[t].pc \notin {"rejected", "failed"}
           /\ task'[t].pc \in {"rejected", "failed"}
           /\ task'[t].err = "ValueError"
           /\ task'[t].req.kind \in {"explain", "read"}) =>
              IF MalformedLookup(task'[t].req)
              THEN task'[t].msg \in InvalidMessages
              ELSE /\ task'[t].msg = "Simulation not found"
                   /\ task'[t].msg \notin InvalidMessages
                   /\ ~DictHas(Stored, task'[t].req.runId)]_vars

\* an unknown run id was reported as not found while the store held a record
NotFoundWitness ==
    \E t \in Tasks :
        /\ task[t].pc = "failed" /\ task[t].msg = "Simulation not found"
        /\ task[t].req.kind = "read"
        /\ Len(Stored) = 1
(* -------------------- claims on the engine, continued ----------------- *)
\* the score a state with these values has under the run's constraints
ScoreOf(values, constraints) == TotalScore(ScoreFunction(values, constraints)).n

\* every state of every snapshot carries the score of its own values
SnapshotScores(r) ==
    LET res == SimResult(sim[r])
    IN \A k \in 1..Len(res.intermediate_states) :
         \A st \in Range(res.intermediate_states[k]) :
            st.score.n = ScoreOf(st.values, sim[r].constraints)

\* C14 (result score consistency), as claimed: in every result run returns,
\* the empty-beam fallback included, score_breakdown is the breakdown of
\* best_result.values, best_result.score is the sum of its components, and
\* every state of every snapshot carries the sum of its own breakdown.
ScoresConsistent ==
    \A r \in Executions :
        Done(r) =>
            LET res == SimResult(sim[r])
            IN /\ res.score_breakdown =
                    ScoreFunction(res.best_result.values, sim[r].constraints)
               /\ res.best_result.score.n = TotalScore(res.score_breakdown).n
               /\ SnapshotScores(r)

\* the same for the results of runs that end with a state in the beam, and
\* the snapshots of every run
ScoresConsistentKept ==
    \A r \in Executions :
        Done(r) =>
            LET res == SimResult(sim[r])
            IN /\ res.score_breakdown =
                    ScoreFunction(res.best_result.values, sim[r].constraints)
               /\ Len(sim[r].beam) > 0
                    => res.best_result.score.n = TotalScore(res.score_breakdown).n
               /\ SnapshotScores(r)
\* the position in the step's generation order of a candidate (each has its
\* own values dict)
GenPos(r, c) == CHOOSE i \in 1..Len(sim[r].generated) : sim[r].generated[i] = c

\* C15 (stable tie-breaking): in every step the candidates are generated
\* parent by parent in beam order and, for one parent, in action-list order;
\* kept candidates of equal score stand in the beam in generation order, and
\* a discarded candidate that ties with a kept one was generated after it.
StableTies ==
    \A r \in Executions :
        (sim[r].pc \in {"loop", "final"} /\ sim[r].step >= 1) =>
            LET gen == sim[r].generated
                beam == sim[r].beam
                parents == sim[r].intermediate_states[sim[r].step]
                actions == sim[r].scenario.actions
                n == Len(actions)
            IN /\ sim[r].scenario.has_actions =>
                    /\ Len(gen) = Len(parents) * n
                    /\ \A i \in 1..Len(parents) : \A j \in 1..n :
                         gen[(i - 1) * n + j].history =
                             Append(parents[i].history, ActionDesc(actions[j]))
               /\ \A i, j \in 1..Len(beam) :
                    (i < j /\ beam[i].score.n = beam[j].score.n)
                        => GenPos(r, beam[i]) < GenPos(r, beam[j])
               /\ \A b \in Range(beam) : \A g \in Range(gen) \ Range(beam) :
                    g.score.n = b.score.n => GenPos(r, b) < GenPos(r, g)

\* a step generated a candidate, then two of a higher equal score, and kept
\* two of them: the tie is sorted to the front in generation order
StableTiesWitness ==
    \E r \in Executions :
        /\ sim[r].pc \in {"loop", "final"} /\ sim[r].step >= 1
        /\ Len(sim[r].generated) >= 3 /\ Len(sim[r].beam) = 2
        /\ sim[r].generated[1].score.n < sim[r].generated[2].score.n
        /\ sim[r].generated[2].score.n = sim[r].generated[3].score.n
        /\ sim[r].beam[1] = sim[r].generated[2]
        /\ sim[r].beam[2] = sim[r].generated[3]
\* the text "<type>(<field>)"
Rendered(type, field) == <<type, "(", field, ")">>

\* the last entry of a history
LastOf(history) == history[Len(history)]

\* C16 (history tracks depth): the first snapshot is the initial state alone,
\* with history ["initial"]; every candidate's history is the history of a
\* state of the beam it was expanded from plus one "<type>(<field>)" entry;
\* every state of snapshot number k (from 0) has k + 1 entries, the first of
\* them "initial", so no parent is carried into the next beam; and the path of
\* a best result taken from the beam has one entry per executed step plus one.
HistoryDepth ==
    \A r \in Executions :
        Ran(r) =>
            LET snaps == sim[r].intermediate_states
            IN /\ Len(snaps) >= 1 =>
                    /\ Len(snaps[1]) = 1
                    /\ snaps[1][1].history = << <<"initial">> >>
                    /\ sim[r].heap[snaps[1][1].values] = sim[r].scenario.initial_state
               /\ \A k \in 1..Len(snaps) : \A st \in Range(snaps[k]) :
                    Len(st.history) = k /\ st.history[1] = <<"initial">>
               /\ (sim[r].pc \in {"loop", "final"} /\ sim[r].step >= 1) =>
                    \A c \in Range(sim[r].generated) :
                        /\ \E p \in Range(snaps[sim[r].step]) :
                             SubSeq(c.history, 1, Len(c.history) - 1) = p.history
                        /\ \E type \in {"increment", "decrement", "set", "unknown"},
                              field \in {"x", "y", "z", "flag", ""} :
                             LastOf(c.history) = Rendered(type, field)
                        /\ sim[r].scenario.has_actions =>
                             \E a \in Range(sim[r].scenario.actions) :
                                LastOf(c.history) =
                                    Rendered(DictGet(a, "type", StrV("unknown")).s,
                                             DictGet(a, "field", StrV("")).s)
               /\ \A b \in Range(sim[r].beam) : Len(b.history) = sim[r].step + 1
               /\ (Done(r) /\ Len(sim[r].beam) > 0) =>
                    Len(SimResult(sim[r]).best_result.path) = sim[r].step + 1

\* a run of two steps finished with a best result whose path is "initial"
\* and two different entries, one of them of an action without a type
HistoryDepthWitness ==
    \E r \in Executions :
        /\ Done(r) /\ sim[r].step = 2
        /\ LET path == SimResult(sim[r]).best_result.path
           IN /\ Len(path) = 3
              /\ path[1] = <<"initial">>
              /\ path[2] # path[3]
              /\ Rendered("unknown", "x") \in {path[2], path[3]}
\* an action that is no operation on a state with these values: its kind is
\* unknown, or it increments or decrements a field the state lacks or a field
\* whose value is no number (a string; the code counts booleans as numbers)
SilentNoOp(values, action) ==
    LET type == DictGet(action, "type", StrV("")).s
        field == DictGet(action, "field", StrV("")).s
    IN \/ type \notin {"increment", "decrement", "set"}
       \/ /\ type \in {"increment", "decrement"}
          /\ \/ ~DictHas(values, field)
             \/ DictGet(values, field, IntV(0)).t = "str"

EarlyOnlyAtFirstStep ==
    \A r \in Executions :
        /\ (Ran(r) /\ sim[r].step >= 2) =>
              (Len(sim[r].generated) >= 1 /\ Len(sim[r].beam) >= 1)
        /\ Done(r) =>
              LET snaps == sim[r].intermediate_states
              IN IF sim[r].step = 1 /\ Len(sim[r].generated) = 0
                 THEN Len(snaps) = 2 /\ Len(snaps[1]) = 1 /\ Len(snaps[2]) = 0
                 ELSE /\ sim[r].step = sim[r].max_steps
                      /\ Len(snaps) = sim[r].max_steps + 1
                      /\ \A k \in 1..Len(snaps) : Len(snaps[k]) >= 1

\* a run of two steps with actions drawn for the numeric fields of each state
\* finished with three snapshots
EarlyOnlyAtFirstStepWitness ==
    \E r \in Executions :
        /\ Done(r) /\ sim[r].max_steps = 2
        /\ ~sim[r].scenario.has_actions
        /\ Len(sim[r].intermediate_states) = 3
        /\ Len(sim[r].beam) >= 1

(* -------------------- claims on the store, continued ------------------ *)
\* the temporary file of task t is gone
NoTmp(t) == ~files[TmpPath(t)].exists

\* C18 (temporary file cleanup), as claimed: after a save_simulation call that
\* did not complete, whether it failed or was cancelled, no temporary file of
\* it remains in the store's directory.
TmpDiscarded ==
    \A t \in Tasks :
        (task[t].pc \in {"failed", "cancelled"} /\ task[t].req.kind = "run")
            => NoTmp(t)

\* the same for the calls that ended in an exception of the rewrite
TmpDiscardedOnError ==
    \A t \in Tasks :
        (task[t].pc = "failed" /\ task[t].req.kind = "run") => NoTmp(t)
\* task t completes its save in this step
Saves(t) == task[t].pc = "closing" /\ task'[t].pc = "done"

\* C20 (store frame and monotonic growth): a completing save_simulation
\* changes the entry of its run id only; every other step, the steps of
\* get_simulation and list_simulations included, leaves the store file as it
\* is; no stored run id ever disappears; and list_simulations returns exactly
\* the run ids of the saves completed before it reads.
StoreFrame ==
    [][/\ \A id \in Range(DictKeys(Stored)) : DictHas(Stored', id)
       /\ \A t \in Tasks :
            Saves(t) =>
               /\ DictGet(Stored', task[t].run_id, <<>>) = RunRecord(RunResultOf(t))
               /\ \A id \in Range(DictKeys(Stored')) \ {task[t].run_id} :
                    /\ DictHas(Stored, id)
                    /\ DictGet(Stored', id, <<>>) = DictGet(Stored, id, <<>>)
       /\ (\A t \in Tasks : ~Saves(t)) => files'[StorageFile] = files[StorageFile]
       /\ \A t \in Tasks :
            (task[t].pc # "done" /\ task'[t].pc = "done"
               /\ task'[t].req.kind = "list") =>
                /\ Range(task'[t].out.ids) = {task[u].run_id : u \in {v \in Tasks : Saved(v)}}
                /\ files'[StorageFile] = files[StorageFile]]_vars

\* list_simulations returned two run ids after two saves
StoreFrameWitness ==
    \E t \in Tasks :
        /\ task[t].pc = "done" /\ task[t].req.kind = "list"
        /\ Len(task[t].out.ids) = 2
        /\ Len(Stored) = 2

\* task t is inside "async with _lock"
Holds(t) == task[t].pc \in {"reading", "writing", "closing"}

\* task t's store operation has ended: returned, raised or was cancelled
Over(t) == task[t].pc \in {"done", "failed", "cancelled"}

\* the lock is held by at most one operation, it is held exactly while an
\* operation is inside the block, and the queue holds exactly the waiting
\* operations, each once
LockHeldByOne ==
    /\ \A t, u \in Tasks : (Holds(t) /\ Holds(u)) => t = u
    /\ lock.locked <=> \E t \in Tasks : Holds(t)
    /\ Range(lock.waiters) = {t \in Tasks : task[t].pc = "waiting"}
    /\ \A i, j \in 1..Len(lock.waiters) :
          lock.waiters[i] = lock.waiters[j] => i = j

\* task t waits for the lock or holds it
Pending(t) == task[t].pc = "waiting" \/ Holds(t)

\* C21 (lock is always released): the store lock is held by at most one
\* operation at a time and is free whenever no operation is inside the block,
\* so also after an operation that failed on a read or a write error; and
\* under a fair event loop no operation waits for the lock forever or holds
\* it forever: each is again and again found not pending, which, as a pending
\* operation stays pending until it ends, says that each comes to its end.
LockReleased ==
    /\ []LockHeldByOne
    /\ \A t \in 1..MaxTasks : []<>(~Pending(t))

\* a save has failed on a write error, the lock is free, and two operations
\* that arrived after it have completed, one of them a save
LockReleasedWitness ==
    /\ ~lock.locked /\ lock.waiters = <<>>
    /\ \E t, u, v \in Tasks :
          /\ t < u /\ u < v
          /\ task[t].pc = "failed" /\ task[t].err = "write"
          /\ task[t].req.kind = "run"
          /\ task[u].pc = "done" /\ task[v].pc = "done"
          /\ "run" \in {task[u].req.kind, task[v].req.kind}
====
